---------------------------- MODULE Spec2Model ----------------------------
(***************************************************************************)
(* Model of the Black-Scholes pricer (src/black_scholes.py) and of the     *)
(* PINN training loop (src/modelo_pinn.py).                                *)
(*                                                                         *)
(* Real numbers are fixed-point integers in units of 1/Escala.  Python's   *)
(* None is the empty sequence and a stored float v is <<v>>.               *)
(***************************************************************************)
EXTENDS Integers, Sequences, FiniteSets, TLC

VARIABLES
    bs,         \* the ModeloBlackScholes instance: its five fields
    chamada,    \* the last configurar_parametros call: arguments and outcome
    th,         \* per thread: the pricing operation it runs and its locals
    pinn,       \* the RedeNeuralPINN instance: parameters, weights, history
    treino,     \* the frame of the running treinar call
    rng,        \* the process-wide random generator: the samples drawn so far
    prev,       \* the prever calls made since the last treinar call returned
    aval,       \* one evaluation of a pure function: its inputs and its result
    app         \* CalculadoraPINNApp: flags, entries, worker threads, after queue

varsBS == <<bs, chamada, th>>
varsPinn == <<pinn, treino, rng, prev>>
vars == <<bs, chamada, th, pinn, treino, rng, prev, aval, app>>

-----------------------------------------------------------------------------
(* Fixed-point arithmetic standing for the float operations of numpy/scipy *)

Escala == 1000

None == <<>>
Some(v) == <<v>>
Val(f) == f[1]

Abs(x) == IF x < 0 THEN -x ELSE x

\* a / b rounded to the nearest integer, symmetric in sign (b > 0)
Arred(a, b) == IF a >= 0 THEN (2 * a + b) \div (2 * b)
                         ELSE -((2 * (-a) + b) \div (2 * b))

Mul(a, b) == Arred(a * b, Escala)
Div(a, b) == IF b > 0 THEN Arred(a * Escala, b) ELSE -Arred(a * Escala, -b)

RECURSIVE RaizInt(_, _)
\* Newton iteration for the integer square root of n, from the guess g
RaizInt(n, g) ==
    LET h == (g + n \div g) \div 2
    IN  IF h >= g THEN g ELSE RaizInt(n, h)

\* np.sqrt(x), x > 0
Sqrt(x) == RaizInt(x * Escala, x * Escala)

\* np.log(x), x > 0: 2 atanh((x-1)/(x+1)) by its series
Log(x) ==
    LET z  == Div(x - Escala, x + Escala)
        z2 == Mul(z, z)
        z3 == Mul(z, z2)
        z5 == Mul(z3, z2)
        z7 == Mul(z5, z2)
    IN  2 * (z + Arred(z3, 3) + Arred(z5, 5) + Arred(z7, 7))

\* np.exp(x), |x| small: the Taylor series
Exp(x) ==
    LET x2 == Mul(x, x)
        x3 == Mul(x2, x)
        x4 == Mul(x3, x)
        x5 == Mul(x4, x)
    IN  Escala + x + Arred(x2, 2) + Arred(x3, 6) + Arred(x4, 24) + Arred(x5, 120)

\* 1/sqrt(2 pi) in fixed point
InvRaiz2Pi == Arred(398942 * Escala, 1000000)

\* scipy.stats.norm.pdf(x)
NormPdf(x) == Mul(InvRaiz2Pi, Exp(-Arred(Mul(x, x), 2)))

RECURSIVE SerieCdf(_, _, _, _)
\* sum of the terms n..fim of x - x^3/6 + x^5/40 - ..., t being term n-1
SerieCdf(t, x2, n, fim) ==
    IF n > fim THEN 0
    ELSE LET tn == -Arred(Mul(t, x2) * (2 * n - 1), 2 * n * (2 * n + 1))
         IN  tn + SerieCdf(tn, x2, n + 1, fim)

\* scipy.stats.norm.cdf(x): 1/2 + pdf(0) * series, saturated outside |x| <= 3
NormCdf(x) ==
    LET s == x + SerieCdf(x, Mul(x, x), 1, 24)
        v == Arred(Escala, 2) + Mul(InvRaiz2Pi, s)
    IN  IF x > 3 * Escala THEN Escala
        ELSE IF x < -(3 * Escala) THEN 0
        ELSE IF v > Escala THEN Escala
        ELSE IF v < 0 THEN 0
        ELSE v

-----------------------------------------------------------------------------
(* ModeloBlackScholes: configuration                                       *)

CamposNone == [preco_ativo |-> None, preco_strike |-> None,
               tempo_maturidade |-> None, taxa_juros |-> None,
               volatilidade |-> None]

\* Validar with strict comparisons: zero passes the validation
Validar_estrita(S, K, T, sigma) ==
    IF S < 0 THEN "Preco do ativo deve ser positivo"
    ELSE IF K < 0 THEN "Preco strike deve ser positivo"
    ELSE IF T < 0 THEN "Tempo ate maturidade deve ser positivo"
    ELSE IF sigma < 0 THEN "Volatilidade deve ser positiva"
    ELSE "ok"

\* the validation cascade: the message of the first failing check, or "ok"
Validar(S, K, T, sigma) ==
    IF S <= 0 THEN "Preco do ativo deve ser positivo"
    ELSE IF K <= 0 THEN "Preco strike deve ser positivo"
    ELSE IF T <= 0 THEN "Tempo ate maturidade deve ser positivo"
    ELSE IF sigma <= 0 THEN "Volatilidade deve ser positiva"
    ELSE "ok"

\* the five assignments, which precede the validation
Atribuir(S, K, T, r, sigma) ==
    [preco_ativo |-> Some(S), preco_strike |-> Some(K),
     tempo_maturidade |-> Some(T), taxa_juros |-> Some(r),
     volatilidade |-> Some(sigma)]

\* configurar_parametros(S, K, T, r, sigma): float() keeps a real's value
configurar_parametros(S, K, T, r, sigma) ==
    /\ bs' = Atribuir(S, K, T, r, sigma)
    /\ chamada' = Some([S |-> S, K |-> K, T |-> T, r |-> r, sigma |-> sigma,
                        erro |-> Validar(S, K, T, sigma)])
    /\ UNCHANGED <<th, varsPinn, aval, app>>

\* arguments a caller may pass: negative, zero and positive reals
PrecosPossiveis == {-Escala, 0, 100 * Escala}
TemposPossiveis == {-Escala, 0, Escala}
TaxasPossiveis  == {-Arred(5 * Escala, 100), 0, Arred(5 * Escala, 100)}
VolsPossiveis   == {-Arred(2 * Escala, 10), 0, Arred(2 * Escala, 10)}

Threads == {"escalar", "superficie"}

Ocioso == [pc |-> "ocioso", op |-> "", tipo |-> "", nS |-> 0, nT |-> 0,
           i |-> 0, j |-> 0, S_original |-> None, T_original |-> None,
           superficie |-> <<>>, S |-> None, d1 |-> 0, d2 |-> 0,
           resultado |-> None]

\* RedeNeuralPINN.__init__: no parameters, empty history, fresh weights
PinnNova ==
    [K |-> None, T |-> None, r |-> None, sigma |-> None,
     historico_loss |-> <<>>, historico_loss_pde |-> <<>>,
     historico_loss_ic |-> <<>>, historico_loss_bc |-> <<>>,
     theta |-> 0, divergiu |-> FALSE]

SemTreino ==
    [pc |-> "ocioso", epocas |-> 0, epoca |-> 0, callback |-> FALSE,
     dados |-> None, perdas |-> None, passos |-> 0, amostragens |-> 0,
     usados |-> {}, hist0 |-> 0, cb |-> <<>>, chamadas |-> 0]

InitPinn ==
    /\ pinn = PinnNova
    /\ treino = SemTreino
    /\ rng = 0
    /\ prev = <<>>
    /\ app = None
    /\ aval = None

InitConfig ==
    /\ bs = CamposNone
    /\ chamada = None
    /\ th = [t \in Threads |-> Ocioso]
    /\ InitPinn

NextConfig ==
    \E S \in PrecosPossiveis, K \in PrecosPossiveis, T \in TemposPossiveis,
       r \in TaxasPossiveis, sigma \in VolsPossiveis :
        configurar_parametros(S, K, T, r, sigma)

SpecConfig == InitConfig /\ [][NextConfig]_vars

-----------------------------------------------------------------------------
(* ModeloBlackScholes: pricing formulas (arguments strictly positive       *)
(* except r)                                                               *)

\* sigma * sqrt(T)
VolRaizT(T, sigma) == Mul(sigma, Sqrt(T))

\* calcular_d1_d2 on the values it read
calcular_d1_d2(S, K, T, r, sigma) ==
    LET d1 == Div(Log(Div(S, K)) + Mul(r + Arred(Mul(sigma, sigma), 2), T),
                  VolRaizT(T, sigma))
    IN  <<d1, d1 - VolRaizT(T, sigma)>>

\* K * exp(-r T)
StrikeDescontado(K, T, r) == Mul(K, Exp(-Mul(r, T)))

\* the last line of calcular_preco_call, from d1, d2 and the values it read
FormulaCall(d1, d2, S, K, T, r) ==
    Mul(S, NormCdf(d1)) - Mul(StrikeDescontado(K, T, r), NormCdf(d2))

\* the last line of calcular_preco_put
FormulaPut(d1, d2, S, K, T, r) ==
    Mul(StrikeDescontado(K, T, r), NormCdf(-d2)) - Mul(S, NormCdf(-d1))

\* calcular_preco_call of an instance whose fields hold these values throughout
calcular_preco_call(S, K, T, r, sigma) ==
    LET d == calcular_d1_d2(S, K, T, r, sigma)
    IN  FormulaCall(d[1], d[2], S, K, T, r)

\* calcular_preco_put of an instance whose fields hold these values throughout
calcular_preco_put(S, K, T, r, sigma) ==
    LET d == calcular_d1_d2(S, K, T, r, sigma)
    IN  FormulaPut(d[1], d[2], S, K, T, r)

-----------------------------------------------------------------------------
(* ModeloBlackScholes: pricing operations, one attribute access per step   *)

\* the longest grid passed to calcular_superficie_precos
MaxGrade == 2

\* the grids a caller passes: the first nS spots and the first nT maturities
PrecoGrade(j) == (90 + 10 * j) * Escala
TempoGrade(i) == i * Escala
precos_ativos(nS) == [j \in 1..nS |-> PrecoGrade(j)]
tempos(nT) == [i \in 1..nT |-> TempoGrade(i)]

\* the comparison made on tipo_opcao itself, without lower()
Lower_identidade(tipo) == tipo

\* tipo_opcao.lower() on the strings callers pass
Lower(tipo) ==
    CASE tipo = "CALL" -> "call"
      [] tipo = "Call" -> "call"
      [] tipo = "cAlL" -> "call"
      [] tipo = "PUT"  -> "put"
      [] tipo = "Put"  -> "put"
      [] tipo = "Cal"  -> "cal"
      [] tipo = "CALLS" -> "calls"
      [] OTHER -> tipo

TiposOpcao == {"call", "CALL", "put"}
OpsEscalares == {"calcular_preco_call", "calcular_preco_put"}

\* valid parameter tuples an instance is configured with
ParametrosValidos ==
    { [S |-> 100 * Escala, K |-> 100 * Escala, T |-> Escala,
       r |-> Arred(5 * Escala, 100), sigma |-> Arred(2 * Escala, 10),
       erro |-> "ok"],
      [S |-> 110 * Escala, K |-> 90 * Escala, T |-> 2 * Escala,
       r |-> -Arred(2 * Escala, 100), sigma |-> Arred(4 * Escala, 10),
       erro |-> "ok"] }

\* a thread calls calcular_preco_call() or calcular_preco_put()
IniciarEscalar(t, op) ==
    /\ th[t].pc = "ocioso"
    /\ th' = [th EXCEPT ![t] = [Ocioso EXCEPT !.pc = "d1_S", !.op = op]]
    /\ UNCHANGED <<bs, chamada, varsPinn, aval, app>>

\* a thread calls calcular_superficie_precos(precos_ativos, tempos, tipo)
IniciarSuperficie(t, nS, nT, tipo) ==
    /\ th[t].pc = "ocioso"
    /\ th' = [th EXCEPT ![t] = [Ocioso EXCEPT !.pc = "sup_S0",
                 !.op = "calcular_superficie_precos", !.tipo = tipo,
                 !.nS = nS, !.nT = nT]]
    /\ UNCHANGED <<bs, chamada, varsPinn, aval, app>>

\* S_original = self.preco_ativo
GuardarS(t) ==
    /\ th[t].pc = "sup_S0"
    /\ th' = [th EXCEPT ![t].S_original = bs.preco_ativo, ![t].pc = "sup_T0"]
    /\ UNCHANGED <<bs, chamada, varsPinn, aval, app>>

\* where the loops go from row i, column j: the next cell or past the rows
ProximaCelula(nS, nT, i, j) ==
    IF nS = 0 \/ i > nT THEN <<nT + 1, 1>>
    ELSE IF j > nS THEN (IF i + 1 > nT THEN <<nT + 1, 1>> ELSE <<i + 1, 1>>)
    ELSE <<i, j>>

\* T_original = self.tempo_maturidade; superficie = np.zeros(...); loop entry
GuardarT(t) ==
    /\ th[t].pc = "sup_T0"
    /\ LET c == ProximaCelula(th[t].nS, th[t].nT, 1, 1)
       IN  th' = [th EXCEPT ![t].T_original = bs.tempo_maturidade,
                     ![t].superficie =
                         [i \in 1..th[t].nT |-> [j \in 1..th[t].nS |-> 0]],
                     ![t].i = c[1], ![t].j = c[2],
                     ![t].pc = IF c[1] > th[t].nT THEN "sup_rS" ELSE "sup_wS"]
    /\ UNCHANGED <<bs, chamada, varsPinn, aval, app>>

\* self.preco_ativo = s
EscreverS(t) ==
    /\ th[t].pc = "sup_wS"
    /\ bs' = [bs EXCEPT !.preco_ativo = Some(precos_ativos(th[t].nS)[th[t].j])]
    /\ th' = [th EXCEPT ![t].pc = "sup_wT"]
    /\ UNCHANGED <<chamada, varsPinn, aval, app>>

\* the cell loop without the assignment of the row's maturity
EscreverT_omitida(t) ==
    /\ th[t].pc = "sup_wT"
    /\ th' = [th EXCEPT ![t].pc = "d1_S"]
    /\ UNCHANGED <<bs, chamada, varsPinn, aval, app>>

\* self.tempo_maturidade = t, then the call of calcular_preco_call / _put
EscreverT(t) ==
    /\ th[t].pc = "sup_wT"
    /\ bs' = [bs EXCEPT !.tempo_maturidade = Some(tempos(th[t].nT)[th[t].i])]
    /\ th' = [th EXCEPT ![t].pc = "d1_S"]
    /\ UNCHANGED <<chamada, varsPinn, aval, app>>

\* calcular_d1_d2: S = self.preco_ativo
LerS_d1(t) ==
    /\ th[t].pc = "d1_S"
    /\ th' = [th EXCEPT ![t].S = bs.preco_ativo, ![t].pc = "d1_T"]
    /\ UNCHANGED <<bs, chamada, varsPinn, aval, app>>

\* calcular_d1_d2: T = self.tempo_maturidade and the rest, which no pricing
\* operation writes; d1 and d2 are returned
LerT_d1(t) ==
    /\ th[t].pc = "d1_T"
    /\ LET d == calcular_d1_d2(Val(th[t].S), Val(bs.preco_strike),
                               Val(bs.tempo_maturidade), Val(bs.taxa_juros),
                               Val(bs.volatilidade))
       IN  th' = [th EXCEPT ![t].d1 = d[1], ![t].d2 = d[2], ![t].S = None,
                            ![t].pc = "p_S"]
    /\ UNCHANGED <<bs, chamada, varsPinn, aval, app>>

\* calcular_preco_call / _put: S = self.preco_ativo
LerS_preco(t) ==
    /\ th[t].pc = "p_S"
    /\ th' = [th EXCEPT ![t].S = bs.preco_ativo, ![t].pc = "p_T"]
    /\ UNCHANGED <<bs, chamada, varsPinn, aval, app>>

\* which formula the running operation evaluates
EhCall(t) ==
    IF th[t].op = "calcular_superficie_precos" THEN Lower(th[t].tipo) = "call"
    ELSE th[t].op = "calcular_preco_call"

\* calcular_preco_call / _put: T = self.tempo_maturidade, the price, the
\* return; in a surface the price goes to superficie[i, j] and the loops go on
LerT_preco(t) ==
    /\ th[t].pc = "p_T"
    /\ LET S == Val(th[t].S)
           K == Val(bs.preco_strike)
           T == Val(bs.tempo_maturidade)
           r == Val(bs.taxa_juros)
           preco == IF EhCall(t) THEN FormulaCall(th[t].d1, th[t].d2, S, K, T, r)
                    ELSE FormulaPut(th[t].d1, th[t].d2, S, K, T, r)
           c == ProximaCelula(th[t].nS, th[t].nT, th[t].i, th[t].j + 1)
       IN  IF th[t].op = "calcular_superficie_precos"
           THEN th' = [th EXCEPT ![t].superficie[th[t].i][th[t].j] = preco,
                           ![t].S = None, ![t].d1 = 0, ![t].d2 = 0,
                           ![t].i = c[1], ![t].j = c[2],
                           ![t].pc = IF c[1] > th[t].nT THEN "sup_rS"
                                     ELSE "sup_wS"]
           ELSE th' = [th EXCEPT ![t].resultado = Some(preco), ![t].S = None,
                           ![t].d1 = 0, ![t].d2 = 0, ![t].pc = "fim"]
    /\ UNCHANGED <<bs, chamada, varsPinn, aval, app>>

\* self.preco_ativo = S_original
RestaurarS(t) ==
    /\ th[t].pc = "sup_rS"
    /\ bs' = [bs EXCEPT !.preco_ativo = th[t].S_original]
    /\ th' = [th EXCEPT ![t].pc = "sup_rT"]
    /\ UNCHANGED <<chamada, varsPinn, aval, app>>

\* a return that leaves the last row's maturity in the field
RestaurarT_omitida(t) ==
    /\ th[t].pc = "sup_rT"
    /\ th' = [th EXCEPT ![t].pc = "fim"]
    /\ UNCHANGED <<bs, chamada, varsPinn, aval, app>>

\* self.tempo_maturidade = T_original; return superficie
RestaurarT(t) ==
    /\ th[t].pc = "sup_rT"
    /\ bs' = [bs EXCEPT !.tempo_maturidade = th[t].T_original]
    /\ th' = [th EXCEPT ![t].pc = "fim"]
    /\ UNCHANGED <<chamada, varsPinn, aval, app>>

\* the caller takes the result; the thread is free for the next operation
Retornar(t) ==
    /\ th[t].pc = "fim"
    /\ th' = [th EXCEPT ![t] = Ocioso]
    /\ UNCHANGED <<bs, chamada, varsPinn, aval, app>>

\* one step inside the operation that thread t is running
PassoOperacao(t) ==
    \/ GuardarS(t) \/ GuardarT(t) \/ EscreverS(t) \/ EscreverT(t)
    \/ LerS_d1(t) \/ LerT_d1(t) \/ LerS_preco(t) \/ LerT_preco(t)
    \/ RestaurarS(t) \/ RestaurarT(t)

\* one step of the operation thread t runs
Passo(t) == PassoOperacao(t) \/ Retornar(t)

\* thread 1 prices scalars while thread 2 computes surfaces
ThreadEscalar == "escalar"
ThreadSuperficie == "superficie"

InitPreco ==
    /\ \E p \in ParametrosValidos :
        /\ bs = Atribuir(p.S, p.K, p.T, p.r, p.sigma)
        /\ chamada = Some(p)
    /\ th = [t \in Threads |-> Ocioso]
    /\ InitPinn

NextPreco ==
    \/ \E op \in OpsEscalares : IniciarEscalar(ThreadEscalar, op)
    \/ \E nS \in 0..MaxGrade, nT \in 0..MaxGrade, tipo \in TiposOpcao :
        IniciarSuperficie(ThreadSuperficie, nS, nT, tipo)
    \/ \E t \in Threads : Passo(t)

SpecPreco == InitPreco /\ [][NextPreco]_vars

\* the grid lengths of two surfaces computed at the same time
GradesConcorrentes == {0, 1}

\* two threads call calcular_superficie_precos on the same instance
NextSuperficies ==
    \/ \E t \in Threads, nS \in GradesConcorrentes, nT \in GradesConcorrentes :
         IniciarSuperficie(t, nS, nT, "call")
    \/ \E t \in Threads : Passo(t)

SpecSuperficies == InitPreco /\ [][NextSuperficies]_vars

-----------------------------------------------------------------------------
(* RedeNeuralPINN: the training loop                                       *)

\* if epoca % 10 == 0
CadenciaRegistro == 10

\* the largest epocas argument and the number of treinar calls on an instance
MaxEpocas == 21
MaxTreinos == 2

EpocasPossiveis ==
    {e \in 0..MaxEpocas :
        e % CadenciaRegistro \in {0, 1, CadenciaRegistro - 1} \/ e = MaxEpocas}

\* the (K, T, r, sigma) tuples passed to treinar
ParametrosTreino ==
    { [K |-> 100 * Escala, T |-> Escala, r |-> Arred(5 * Escala, 100),
       sigma |-> Arred(2 * Escala, 10)],
      [K |-> 120 * Escala, T |-> 2 * Escala, r |-> Arred(3 * Escala, 100),
       sigma |-> Arred(4 * Escala, 10)] }

\* S_max = 4.0 * K
S_max_de(K) == 4 * K

\* a treinar that starts every run from empty history lists
guardar_parametros_reiniciando(p, K, T, r, sigma) ==
    [p EXCEPT !.K = Some(K), !.T = Some(T), !.r = Some(r),
              !.sigma = Some(sigma),
              !.historico_loss = <<>>, !.historico_loss_pde = <<>>,
              !.historico_loss_ic = <<>>, !.historico_loss_bc = <<>>]

\* self.K = K; self.T = T; self.r = r; self.sigma = sigma: nothing else of
\* the instance is assigned before the loop
guardar_parametros(p, K, T, r, sigma) ==
    [p EXCEPT !.K = Some(K), !.T = Some(T), !.r = Some(r),
              !.sigma = Some(sigma)]

\* treinar, up to the call of gerar_dados_treinamento: the four parameters
\* are stored unconditionally and S_max = 4.0 * K
treinar(K, T, r, sigma, epocas, callback_progresso) ==
    /\ treino.pc = "ocioso"
    /\ treino.chamadas < MaxTreinos
    /\ pinn' = guardar_parametros(pinn, K, T, r, sigma)
    /\ prev' = <<>>
    /\ treino' = [SemTreino EXCEPT !.pc = "gerar", !.epocas = epocas,
                     !.callback = callback_progresso,
                     !.dados = Some([id |-> 0, S_max |-> S_max_de(K)]),
                     !.hist0 = Len(pinn.historico_loss),
                     !.chamadas = treino.chamadas + 1]
    /\ UNCHANGED <<rng, varsBS, aval, app>>

\* gerar_dados_treinamento: one fresh random sample of the point sets; the
\* loop is entered, or skipped when range(epocas) is empty
gerar_dados_treinamento ==
    /\ treino.pc = "gerar"
    /\ rng' = rng + 1
    /\ treino' = [treino EXCEPT !.dados = Some([Val(@) EXCEPT !.id = rng + 1]),
                     !.amostragens = @ + 1,
                     !.pc = IF treino.epocas = 0 THEN "fim" ELSE "laco"]
    /\ UNCHANGED <<pinn, varsBS, prev, aval, app>>

\* calcular_perda: the four losses of the weights theta on a dataset; they
\* are finite unless the weights have diverged
calcular_perda(theta, divergiu, dados) ==
    [c \in {"total", "pde", "ic", "bc"} |->
        [comp |-> c, theta |-> theta, dados |-> dados.id,
         finito |-> ~divergiu]]

\* the dataset a step resamples in epochs after the first
dados_reamostrados(tr) ==
    IF tr.epoca = 0 THEN tr.dados
    ELSE Some([Val(tr.dados) EXCEPT !.id = @ + tr.epoca])

\* self.passo_treinamento(*dados): the dataset the step receives
dados_do_passo(tr) == tr.dados

\* epoca + 1 as registered one epoch late
deve_registrar_atrasado(epoca) == (epoca + 1) % CadenciaRegistro = 0

\* if epoca % 10 == 0
deve_registrar(epoca) == epoca % CadenciaRegistro = 0

\* a loop that stops at a loss that is not finite
proxima_epoca_com_guarda(tr) ==
    [tr EXCEPT !.epoca = @ + 1,
               !.pc = IF tr.epoca + 1 >= tr.epocas
                         \/ ~Val(tr.perdas)["total"].finito
                      THEN "fim" ELSE "laco"]

\* for epoca in range(epocas): the next iteration, or the end of the loop
proxima_epoca(tr) ==
    [tr EXCEPT !.epoca = @ + 1,
               !.pc = IF tr.epoca + 1 >= tr.epocas THEN "fim" ELSE "laco"]

\* losses computed after the optimizer step
perda_apos_passo(p, d) == calcular_perda(p.theta + 1, p.divergiu, d)

\* with tf.GradientTape() as tape: ... self.calcular_perda(*args), before
\* apply_gradients
perda_do_passo(p, d) == calcular_perda(p.theta, p.divergiu, d)

\* passo_treinamento: the losses of the current weights, then one optimizer
\* step on them; the new weights may be NaN/Inf, and stay so once they are
passo_treinamento ==
    /\ treino.pc = "laco"
    /\ LET d == Val(dados_do_passo(treino))
           tr == [treino EXCEPT
                     !.perdas = Some(perda_do_passo(pinn, d)),
                     !.passos = @ + 1,
                     !.usados = @ \cup {d.id}]
       IN  /\ treino' = IF deve_registrar(treino.epoca)
                        THEN [tr EXCEPT !.pc = "reg_loss"]
                        ELSE proxima_epoca(tr)
           /\ \E div \in BOOLEAN :
                pinn' = [pinn EXCEPT !.theta = @ + 1,
                                     !.divergiu = @ \/ div]
    /\ UNCHANGED <<rng, varsBS, prev, aval, app>>

\* self.historico_loss.append(loss_total.numpy())
registrar_loss ==
    /\ treino.pc = "reg_loss"
    /\ pinn' = [pinn EXCEPT !.historico_loss =
                   Append(@, Val(treino.perdas)["total"])]
    /\ treino' = [treino EXCEPT !.pc = "reg_pde"]
    /\ UNCHANGED <<rng, varsBS, prev, aval, app>>

\* self.historico_loss_pde.append(loss_pde.numpy())
registrar_loss_pde ==
    /\ treino.pc = "reg_pde"
    /\ pinn' = [pinn EXCEPT !.historico_loss_pde =
                   Append(@, Val(treino.perdas)["pde"])]
    /\ treino' = [treino EXCEPT !.pc = "reg_ic"]
    /\ UNCHANGED <<rng, varsBS, prev, aval, app>>

\* self.historico_loss_ic.append(loss_ic.numpy())
registrar_loss_ic ==
    /\ treino.pc = "reg_ic"
    /\ pinn' = [pinn EXCEPT !.historico_loss_ic =
                   Append(@, Val(treino.perdas)["ic"])]
    /\ treino' = [treino EXCEPT !.pc = "reg_bc"]
    /\ UNCHANGED <<rng, varsBS, prev, aval, app>>

\* self.historico_loss_bc.append(loss_bc.numpy()); if callback_progresso
registrar_loss_bc ==
    /\ treino.pc = "reg_bc"
    /\ pinn' = [pinn EXCEPT !.historico_loss_bc =
                   Append(@, Val(treino.perdas)["bc"])]
    /\ treino' = IF treino.callback THEN [treino EXCEPT !.pc = "callback"]
                 ELSE proxima_epoca(treino)
    /\ UNCHANGED <<rng, varsBS, prev, aval, app>>

\* a fraction that runs ahead of the epoch count
progresso_adiantado(epoca, epocas) == <<epoca + CadenciaRegistro, epocas>>

\* progresso = (epoca + 1) / epocas, as numerator and denominator
progresso(epoca, epocas) == <<epoca + 1, epocas>>

\* callback_progresso(progresso, msg), run inside the loop
chamar_callback ==
    /\ treino.pc = "callback"
    /\ treino' = proxima_epoca(
           [treino EXCEPT !.cb = Append(@,
               [progresso |-> progresso(treino.epoca, treino.epocas),
                epoca |-> treino.epoca,
                loss |-> Val(treino.perdas)["total"],
                hist |-> Len(pinn.historico_loss),
                passos |-> treino.passos])])
    /\ UNCHANGED <<pinn, rng, varsBS, prev, aval, app>>

\* return self.historico_loss
retornar_treino ==
    /\ treino.pc = "fim"
    /\ treino' = [SemTreino EXCEPT !.chamadas = treino.chamadas]
    /\ UNCHANGED <<pinn, rng, varsBS, prev, aval, app>>

\* the arguments of prever: a Python float (rank 0) or a list (rank 1)
Escalar(x) == [rank |-> 0, v |-> <<x>>]
Vetor(xs) == [rank |-> 1, v |-> xs]

\* if len(x.shape) == 0: x = tf.reshape(x, (1,))
reshape1(x) == IF x.rank = 0 THEN Vetor(x.v) ELSE x

\* a prever that never expands t
expandir_t_omitido(S, t) == t

\* if t.shape[0] == 1 and S.shape[0] > 1: t = tf.ones_like(S) * t
expandir_t(S, t) ==
    IF Len(t.v) = 1 /\ Len(S.v) > 1
    THEN Vetor([i \in 1..Len(S.v) |-> t.v[1]])
    ELSE t

\* tf.stack([S, t], axis=1): the rows (S_i, t_i); shapes that differ raise
stack(S, t) ==
    IF Len(S.v) = Len(t.v)
    THEN [erro |-> FALSE, linhas |-> [i \in 1..Len(S.v) |-> <<S.v[i], t.v[i]>>]]
    ELSE [erro |-> TRUE, linhas |-> <<>>]

\* self.modelo(inputs): the output of the network with the current weights
\* on one row; it is a number unless the weights have diverged
modelo(p, linha) ==
    [theta |-> p.theta, S |-> linha[1], t |-> linha[2], finito |-> ~p.divergiu]

\* the value prever returns (the flat array), or the exception of tf.stack
prever_resultado(p, S, t) ==
    LET S1 == reshape1(S)
        t1 == expandir_t(S1, reshape1(t))
        inputs == stack(S1, t1)
    IN  IF inputs.erro THEN [erro |-> TRUE, saida |-> <<>>]
        ELSE [erro |-> FALSE,
              saida |-> [i \in 1..Len(inputs.linhas) |->
                            modelo(p, inputs.linhas[i])]]

\* a prever whose forward pass also moves the weights
apos_prever_ajustando(p) == [p EXCEPT !.theta = @ + 1]

\* the instance after prever: no attribute is assigned in its body
apos_prever(p) == p

\* the number of prever calls followed between two treinar calls
MaxPrevisoes == 2

\* the (S, t) arguments of prever: vector and scalar, paired vectors, two
\* scalars, and vectors of different lengths
EntradasPrever ==
    LET S2 == Vetor(<<PrecoGrade(0), PrecoGrade(1)>>)
    IN  { <<S2, Escalar(0)>>,
          <<S2, Vetor(<<0, Escala>>)>>,
          <<Escalar(PrecoGrade(1)), Escalar(Escala)>>,
          <<S2, Vetor(<<0, Escala, Escala>>)>>,
          <<Escalar(PrecoGrade(1)), Vetor(<<0, Escala>>)>> }

\* prever(S, t), called while no treinar call is running
prever(S, t) ==
    /\ treino.pc = "ocioso"
    /\ Len(prev) < MaxPrevisoes
    /\ prev' = Append(prev, [S |-> S, t |-> t,
                             resultado |-> prever_resultado(pinn, S, t)])
    /\ pinn' = apos_prever(pinn)
    /\ UNCHANGED <<treino, rng, varsBS, aval, app>>

InitTreino ==
    /\ bs = CamposNone
    /\ chamada = None
    /\ th = [t \in Threads |-> Ocioso]
    /\ InitPinn

NextTreino ==
    \/ \E p \in ParametrosTreino, epocas \in EpocasPossiveis,
         cb \in BOOLEAN :
         treinar(p.K, p.T, p.r, p.sigma, epocas, cb)
    \/ gerar_dados_treinamento
    \/ passo_treinamento
    \/ registrar_loss
    \/ registrar_loss_pde
    \/ registrar_loss_ic
    \/ registrar_loss_bc
    \/ chamar_callback
    \/ retornar_treino

SpecTreino == InitTreino /\ [][NextTreino]_vars

\* the treinar calls followed together with prever calls: a market and a
\* call with a negative volatility, for no epoch or two registered epochs
ParametrosInstancia ==
    { [K |-> 100 * Escala, T |-> Escala, r |-> Arred(5 * Escala, 100),
       sigma |-> Arred(2 * Escala, 10)],
      [K |-> 100 * Escala, T |-> Escala, r |-> Arred(5 * Escala, 100),
       sigma |-> -Arred(2 * Escala, 10)] }

EpocasInstancia == {0, CadenciaRegistro + 1}

\* the life of one instance: treinar calls and, between them, prever calls
NextInstancia ==
    \/ \E p \in ParametrosInstancia, epocas \in EpocasInstancia,
         cb \in BOOLEAN :
         treinar(p.K, p.T, p.r, p.sigma, epocas, cb)
    \/ gerar_dados_treinamento
    \/ passo_treinamento
    \/ registrar_loss
    \/ registrar_loss_pde
    \/ registrar_loss_ic
    \/ registrar_loss_bc
    \/ chamar_callback
    \/ retornar_treino
    \/ \E e \in EntradasPrever : prever(e[1], e[2])

SpecInstancia == InitTreino /\ [][NextInstancia]_vars

-----------------------------------------------------------------------------
(* RedeNeuralPINN: the losses of one batch                                 *)

\* a float32 value of a tensor: a number in units of 1/Escala, or NaN
Num(v) == [nan |-> FALSE, v |-> v]
NaN == [nan |-> TRUE, v |-> 0]

\* float arithmetic: NaN in any operand gives NaN
FSoma(a, b) == IF a.nan \/ b.nan THEN NaN ELSE Num(a.v + b.v)
FSub(a, b) == IF a.nan \/ b.nan THEN NaN ELSE Num(a.v - b.v)
FMul(a, b) == IF a.nan \/ b.nan THEN NaN ELSE Num(Mul(a.v, b.v))

\* tf.square
square(a) == FMul(a, a)

RECURSIVE SomaSeq(_)
SomaSeq(xs) ==
    IF xs = <<>> THEN Num(0) ELSE FSoma(Head(xs), SomaSeq(Tail(xs)))

\* tf.reduce_mean of a tensor that is not empty
reduce_mean(xs) ==
    LET soma == SomaSeq(xs)
    IN  IF soma.nan THEN NaN ELSE Num(Arred(soma.v, Len(xs)))

\* residuo = dV_dt + 0.5 * sigma**2 * S**2 * d2V_dS2 + r * S * dV_dS - r * V
\* at one collocation point, d being the output of calcular_derivadas there
residuo(sigma, r, S, d) ==
    LET difusao == FMul(FMul(FMul(Num(Arred(5 * Escala, 10)),
                                  Num(Mul(sigma, sigma))),
                             Num(Mul(S, S))),
                        d.d2V_dS2)
        conveccao == FMul(Num(Mul(r, S)), d.dV_dS)
        desconto == FMul(Num(r), d.V)
    IN  FSub(FSoma(FSoma(d.dV_dt, difusao), conveccao), desconto)

\* calcular_perda_pde: the mean squared residual over the collocation points
calcular_perda_pde(sigma, r, S_colocacao, derivadas) ==
    reduce_mean([i \in 1..Len(S_colocacao) |->
                    square(residuo(sigma, r, S_colocacao[i], derivadas[i]))])

\* tf.reduce_mean(tf.square(V - V_pred)) of a terminal or boundary set
perda_mse(V, V_pred) ==
    reduce_mean([i \in 1..Len(V) |-> square(FSub(V[i], V_pred[i]))])

\* the literal 10.0 of the weighted sum
PesoPerda == 10 * Escala

\* loss_total = loss_pde + 10.0 * loss_ic + 10.0 * loss_bc
perda_total(loss_pde, loss_ic, loss_bc) ==
    FSoma(FSoma(loss_pde, FMul(Num(PesoPerda), loss_ic)),
          FMul(Num(PesoPerda), loss_bc))

\* calcular_perda on one batch e: the outputs of the network on the batch
\* are part of e; an attribute lambda_ic or lambda_bc set on the instance is
\* not read
calcular_perda_lote(e) ==
    LET loss_pde == calcular_perda_pde(e.sigma, e.r, e.S_colocacao, e.derivadas)
        loss_ic == perda_mse(e.V_inicial, e.V_pred_inicial)
        loss_bc_inf == perda_mse(e.V_contorno_inf, e.V_pred_inf)
        loss_bc_sup == perda_mse(e.V_contorno_sup, e.V_pred_sup)
        loss_bc == FSoma(loss_bc_inf, loss_bc_sup)
    IN  [loss_total |-> perda_total(loss_pde, loss_ic, loss_bc),
         loss_pde |-> loss_pde, loss_ic |-> loss_ic, loss_bc |-> loss_bc,
         loss_bc_inf |-> loss_bc_inf, loss_bc_sup |-> loss_bc_sup]

\* the outputs of calcular_derivadas at a collocation point: a flat network,
\* a network with slope, and a network whose weights are NaN
DerivadasPossiveis ==
    { [V |-> Num(0), dV_dt |-> Num(0), dV_dS |-> Num(0), d2V_dS2 |-> Num(0)],
      [V |-> Num(Escala), dV_dt |-> Num(-Arred(Escala, 2)),
       dV_dS |-> Num(Escala), d2V_dS2 |-> Num(Arred(Escala, 4))],
      [V |-> NaN, dV_dt |-> NaN, dV_dS |-> NaN, d2V_dS2 |-> NaN] }

\* the outputs of the network at a terminal or boundary point
SaidasPossiveis == {Num(0), Num(2 * Escala), NaN}

\* the weights lambda_ic = lambda_bc a caller sets on the instance
PesosPedidos == {PesoPerda, Escala}

\* the batches: two collocation points, one terminal point with its payoff
\* target, one point on each boundary
LotesPossiveis ==
    { [sigma |-> Arred(2 * Escala, 10), r |-> Arred(5 * Escala, 100),
       S_colocacao |-> <<Escala, 3 * Escala>>, derivadas |-> <<d1, d2>>,
       V_inicial |-> <<Num(vi)>>, V_pred_inicial |-> <<pi>>,
       V_contorno_inf |-> <<Num(0)>>, V_pred_inf |-> <<pinf>>,
       V_contorno_sup |-> <<Num(3 * Escala)>>, V_pred_sup |-> <<psup>>,
       lambda |-> l] :
      d1 \in DerivadasPossiveis, d2 \in DerivadasPossiveis,
      vi \in {0, Escala}, pi \in SaidasPossiveis,
      pinf \in SaidasPossiveis, psup \in SaidasPossiveis,
      l \in PesosPedidos }

\* one call of calcular_perda on the chosen batch
avaliar_perda ==
    /\ aval # None
    /\ Val(aval).op = "calcular_perda"
    /\ Val(aval).saida = None
    /\ aval' = Some([Val(aval) EXCEPT
                        !.saida = Some(calcular_perda_lote(Val(aval).entrada))])
    /\ UNCHANGED <<varsBS, varsPinn, app>>

InitPerda ==
    /\ bs = CamposNone
    /\ chamada = None
    /\ th = [t \in Threads |-> Ocioso]
    /\ pinn = PinnNova
    /\ treino = SemTreino
    /\ rng = 0
    /\ prev = <<>>
    /\ app = None
    /\ \E e \in LotesPossiveis :
          aval = Some([op |-> "calcular_perda", entrada |-> e, saida |-> None])

NextPerda == avaliar_perda

SpecPerda == InitPerda /\ [][NextPerda]_vars

-----------------------------------------------------------------------------
(* RedeNeuralPINN: the training dataset                                    *)

\* minval=0.1 of the collocation spots
MinvalColocacao == Arred(Escala, 10)

\* the random numbers in [0, 1) behind tf.random.uniform, in units of
\* 1/Escala: the smallest, a middle one and the largest
Unidades == {0, Arred(Escala, 2), Escala - 1}

\* tf.random.uniform(minval, maxval) on floats: rnd * (maxval - minval) +
\* minval, with no test that minval < maxval; the product is cut, not
\* rounded, so that a draw stays on the minval side of maxval
uniform(minval, maxval, u) == ((u * (maxval - minval)) \div Escala) + minval

\* a payoff of a put
payoff_put(S, K) == IF K - S > 0 THEN K - S ELSE 0

\* tf.maximum(S_ic - self.K, 0)
payoff(S, K) == IF S - K > 0 THEN S - K ELSE 0

\* S_bc_sup - self.K * tf.exp(-self.r * (self.T - t_bc_sup))
alvo_contorno_sup(S_max, K, T, r, t) == S_max - Mul(K, Exp(-Mul(r, T - t)))

\* gerar_dados_treinamento(N_colocacao, N_borda, S_max) on an instance with
\* K, T, r; u holds the random numbers of the five uniform draws
dados_treinamento(K, T, r, N_colocacao, N_borda, S_max, u) ==
    LET S_ic == [i \in 1..N_borda |-> uniform(0, S_max, u.S_ic[i])]
        t_bc_sup == [i \in 1..N_borda |-> uniform(0, T, u.t_bc_sup[i])]
    IN  [S_col |-> [i \in 1..N_colocacao |->
                      uniform(MinvalColocacao, S_max, u.S_col[i])],
         t_col |-> [i \in 1..N_colocacao |-> uniform(0, T, u.t_col[i])],
         S_ic |-> S_ic,
         t_ic |-> [i \in 1..N_borda |-> T],
         V_ic |-> [i \in 1..N_borda |-> payoff(S_ic[i], K)],
         S_bc_inf |-> [i \in 1..N_borda |-> 0],
         t_bc_inf |-> [i \in 1..N_borda |-> uniform(0, T, u.t_bc_inf[i])],
         V_bc_inf |-> [i \in 1..N_borda |-> 0],
         S_bc_sup |-> [i \in 1..N_borda |-> S_max],
         t_bc_sup |-> t_bc_sup,
         V_bc_sup |-> [i \in 1..N_borda |->
                         alvo_contorno_sup(S_max, K, T, r, t_bc_sup[i])]]

\* the (N_colocacao, N_borda) arguments followed
TamanhosPossiveis == {<<1, 1>>, <<2, 1>>, <<1, 2>>}

\* the valid (K, T, r) of the instance: a strike of 100 and a strike of 0.02
MercadosPossiveis ==
    { [K |-> 100 * Escala, T |-> Escala, r |-> Arred(5 * Escala, 100)],
      [K |-> Arred(2 * Escala, 100), T |-> Escala,
       r |-> Arred(5 * Escala, 100)] }

\* the random numbers one call may draw
SorteiosPossiveis(N_colocacao, N_borda) ==
    [S_col : [1..N_colocacao -> Unidades], t_col : [1..N_colocacao -> Unidades],
     S_ic : [1..N_borda -> Unidades], t_bc_inf : [1..N_borda -> Unidades],
     t_bc_sup : [1..N_borda -> Unidades]]

\* treinar's S_max and its call of gerar_dados_treinamento
avaliar_dados ==
    /\ aval # None
    /\ Val(aval).op = "gerar_dados_treinamento"
    /\ Val(aval).saida = None
    /\ LET e == Val(aval).entrada
       IN  aval' = Some([Val(aval) EXCEPT !.saida =
                       Some(dados_treinamento(e.K, e.T, e.r, e.N_colocacao,
                                              e.N_borda, S_max_de(e.K), e.u))])
    /\ UNCHANGED <<varsBS, varsPinn, app>>

InitDados ==
    /\ bs = CamposNone
    /\ chamada = None
    /\ th = [t \in Threads |-> Ocioso]
    /\ pinn = PinnNova
    /\ treino = SemTreino
    /\ rng = 0
    /\ prev = <<>>
    /\ app = None
    /\ \E m \in MercadosPossiveis, n \in TamanhosPossiveis :
          \E u \in SorteiosPossiveis(n[1], n[2]) :
             aval = Some([op |-> "gerar_dados_treinamento",
                          entrada |-> [K |-> m.K, T |-> m.T, r |-> m.r,
                                       N_colocacao |-> n[1], N_borda |-> n[2],
                                       u |-> u],
                          saida |-> None])

NextDados == avaliar_dados

SpecDados == InitDados /\ [][NextDados]_vars

-----------------------------------------------------------------------------
(* RedeNeuralPINN: the forward pass                                        *)

\* beyond this argument exp(-x) is below the resolution 1/Escala
LimiteExp == 8 * Escala

RECURSIVE ExpNeg(_)
\* exp(-y) for y >= 0: the series on [0, 1/2], squared back up
ExpNeg(y) ==
    IF y > LimiteExp THEN 0
    ELSE IF 2 * y <= Escala THEN Exp(-y)
    ELSE LET h == ExpNeg(y \div 2) IN Mul(h, h)

\* tanh(x) = sign(x) * (1 - exp(-2|x|)) / (1 + exp(-2|x|))
Tanh(x) ==
    LET e == ExpNeg(2 * Abs(x))
        m == Div(Escala - e, Escala + e)
    IN  IF x < 0 THEN -m ELSE m

\* softplus(x) = log(1 + exp(x)) = max(x, 0) + log(1 + exp(-|x|))
Softplus(x) == (IF x > 0 THEN x ELSE 0) + Log(Escala + ExpNeg(Abs(x)))

\* the activations on floats
FTanh(a) == IF a.nan THEN NaN ELSE Num(Tanh(a.v))
FSoftplus(a) == IF a.nan THEN NaN ELSE Num(Softplus(a.v))

\* an output layer with no activation
ativacao_saida_linear(a) == a

\* Dense(1, activation='softplus'): the activation of the output layer
ativacao_saida(a) == FSoftplus(a)

\* Lambda(lambda x: 2.0 * (x - 0.0) / (1.0 - 0.0) - 1.0)
normalizar(x) == FSub(FMul(Num(2 * Escala), x), Num(Escala))

\* a Dense layer of one neuron on the inputs xs, before its activation
dense(kernel, bias, xs) ==
    FSoma(SomaSeq([i \in 1..Len(xs) |-> FMul(kernel[i], xs[i])]), bias)

\* self.modelo(inputs) on one row (S, t) for camadas = [2, 1, 1]: the
\* normalisation, one tanh neuron, the output neuron
forward(w, S, t) ==
    LET x == <<normalizar(S), normalizar(t)>>
        h == FTanh(dense(w.kernel1, w.bias1, x))
    IN  ativacao_saida(dense(<<w.kernel2>>, w.bias2, <<h>>))

\* the values of a weight: numbers of either sign, zero, and NaN
ValoresPeso == {Num(-2 * Escala), Num(0), Num(Arred(Escala, 2)), NaN}

\* the weights of the network with camadas = [2, 1, 1]
PesosPossiveis ==
    [kernel1 : {<<a, b>> : a \in ValoresPeso, b \in {Num(0), Num(Escala)}},
     bias1 : {Num(0), Num(Escala)},
     kernel2 : ValoresPeso, bias2 : ValoresPeso]

\* the rows (S, t) the network is evaluated on
LinhasPossiveis ==
    { <<Num(0), Num(0)>>, <<Num(Escala), Num(Arred(Escala, 2))>>,
      <<Num(100 * Escala), Num(Escala)>> }

\* one forward pass of the network
avaliar_rede ==
    /\ aval # None
    /\ Val(aval).op = "modelo"
    /\ Val(aval).saida = None
    /\ LET e == Val(aval).entrada
       IN  aval' = Some([Val(aval) EXCEPT
                           !.saida = Some(forward(e.w, e.S, e.t))])
    /\ UNCHANGED <<varsBS, varsPinn, app>>

InitRede ==
    /\ bs = CamposNone
    /\ chamada = None
    /\ th = [t \in Threads |-> Ocioso]
    /\ pinn = PinnNova
    /\ treino = SemTreino
    /\ rng = 0
    /\ prev = <<>>
    /\ app = None
    /\ \E w \in PesosPossiveis, l \in LinhasPossiveis :
          aval = Some([op |-> "modelo",
                       entrada |-> [w |-> w, S |-> l[1], t |-> l[2]],
                       saida |-> None])

NextRede == avaliar_rede

SpecRede == InitRede /\ [][NextRede]_vars

-----------------------------------------------------------------------------
(* ModeloBlackScholes: the greeks                                          *)

\* calcular_delta: norm.cdf(d1) for 'call' in any case, norm.cdf(d1) - 1 for
\* every other tipo_opcao
calcular_delta(tipo_opcao, S, K, T, r, sigma) ==
    LET d == calcular_d1_d2(S, K, T, r, sigma)
    IN  IF Lower(tipo_opcao) = "call" THEN NormCdf(d[1])
        ELSE NormCdf(d[1]) - Escala

\* calcular_gamma: norm.pdf(d1) / (S * sigma * np.sqrt(T))
calcular_gamma(S, K, T, r, sigma) ==
    LET d == calcular_d1_d2(S, K, T, r, sigma)
    IN  Div(NormPdf(d[1]), Mul(Mul(S, sigma), Sqrt(T)))

\* vega = S * norm.pdf(d1) * np.sqrt(T)
vega_bruta(S, K, T, r, sigma) ==
    LET d == calcular_d1_d2(S, K, T, r, sigma)
    IN  Mul(Mul(S, NormPdf(d[1])), Sqrt(T))

\* a vega returned as computed
calcular_vega_sem_escala(S, K, T, r, sigma) == vega_bruta(S, K, T, r, sigma)

\* calcular_vega: return vega / 100
calcular_vega(S, K, T, r, sigma) == Arred(vega_bruta(S, K, T, r, sigma), 100)

\* theta = termo1 + termo2
theta_bruto(tipo_opcao, S, K, T, r, sigma) ==
    LET d == calcular_d1_d2(S, K, T, r, sigma)
        termo1 == -Div(Mul(Mul(S, NormPdf(d[1])), sigma), 2 * Sqrt(T))
        termo2 == IF Lower(tipo_opcao) = "call"
                  THEN Mul(Mul(Mul(-r, K), Exp(-Mul(r, T))), NormCdf(d[2]))
                  ELSE Mul(Mul(Mul(r, K), Exp(-Mul(r, T))), NormCdf(-d[2]))
    IN  termo1 + termo2

\* calcular_theta: return theta / 365
calcular_theta(tipo_opcao, S, K, T, r, sigma) ==
    Arred(theta_bruto(tipo_opcao, S, K, T, r, sigma), 365)

\* rho = +-K * T * np.exp(-r * T) * norm.cdf(+-d2)
rho_bruto(tipo_opcao, S, K, T, r, sigma) ==
    LET d == calcular_d1_d2(S, K, T, r, sigma)
    IN  IF Lower(tipo_opcao) = "call"
        THEN Mul(Mul(Mul(K, T), Exp(-Mul(r, T))), NormCdf(d[2]))
        ELSE Mul(Mul(Mul(-K, T), Exp(-Mul(r, T))), NormCdf(-d[2]))

\* calcular_rho: return rho / 100
calcular_rho(tipo_opcao, S, K, T, r, sigma) ==
    Arred(rho_bruto(tipo_opcao, S, K, T, r, sigma), 100)

\* calcular_todas_gregas: the dict of the five greeks
calcular_todas_gregas(tipo_opcao, S, K, T, r, sigma) ==
    [delta |-> calcular_delta(tipo_opcao, S, K, T, r, sigma),
     gamma |-> calcular_gamma(S, K, T, r, sigma),
     vega |-> calcular_vega(S, K, T, r, sigma),
     theta |-> calcular_theta(tipo_opcao, S, K, T, r, sigma),
     rho |-> calcular_rho(tipo_opcao, S, K, T, r, sigma)]

\* the validly configured instances the greeks are computed on
ParametrosGregas ==
    [S : {90 * Escala, 100 * Escala, 110 * Escala},
     K : {90 * Escala, 100 * Escala},
     T : {Arred(Escala, 2), Escala, 2 * Escala},
     r : {-Arred(2 * Escala, 100), Arred(5 * Escala, 100)},
     sigma : {Arred(2 * Escala, 10), Arred(4 * Escala, 10)}]

\* the tipo_opcao arguments for a call and for a put
TiposCall == {"call", "CALL"}
TiposPut == {"put", "PUT"}

\* calcular_todas_gregas for a call and for a put on the same instance
avaliar_gregas ==
    /\ aval # None
    /\ Val(aval).op = "calcular_todas_gregas"
    /\ Val(aval).saida = None
    /\ LET e == Val(aval).entrada
           p == e.p
       IN  aval' = Some([Val(aval) EXCEPT !.saida = Some(
               [call |-> calcular_todas_gregas(e.tipo_call, p.S, p.K, p.T,
                                               p.r, p.sigma),
                put |-> calcular_todas_gregas(e.tipo_put, p.S, p.K, p.T,
                                              p.r, p.sigma)])])
    /\ UNCHANGED <<varsBS, varsPinn, app>>

InitGregas ==
    /\ \E p \in ParametrosGregas :
          /\ bs = Atribuir(p.S, p.K, p.T, p.r, p.sigma)
          /\ chamada = Some([S |-> p.S, K |-> p.K, T |-> p.T, r |-> p.r,
                             sigma |-> p.sigma, erro |-> "ok"])
          /\ \E tc \in TiposCall, tp \in TiposPut :
                aval = Some([op |-> "calcular_todas_gregas",
                             entrada |-> [p |-> p, tipo_call |-> tc,
                                          tipo_put |-> tp],
                             saida |-> None])
    /\ th = [t \in Threads |-> Ocioso]
    /\ pinn = PinnNova
    /\ treino = SemTreino
    /\ rng = 0
    /\ prev = <<>>
    /\ app = None

NextGregas == avaliar_gregas

SpecGregas == InitGregas /\ [][NextGregas]_vars

-----------------------------------------------------------------------------
(* The selection of the formula by tipo_opcao: one caller passes the same  *)
(* string to calcular_delta, calcular_theta, calcular_rho,                 *)
(* calcular_todas_gregas and calcular_superficie_precos                    *)

\* the strings equal to 'call' ignoring case, and other strings
TiposIgualCall == {"call", "CALL", "Call", "cAlL"}
TiposDiferentes == {"put", "PUT", "Put", "cal", "Cal", "calls", "CALLS", ""}
TiposEntrada == TiposIgualCall \cup TiposDiferentes

\* the caller evaluates the four greeks operations that take tipo_opcao
avaliar_seletores ==
    /\ aval # None
    /\ Val(aval).op = "seletores"
    /\ Val(aval).saida = None
    /\ th[ThreadSuperficie].pc = "ocioso"
    /\ LET tipo == Val(aval).entrada.tipo
           S == Val(bs.preco_ativo)
           K == Val(bs.preco_strike)
           T == Val(bs.tempo_maturidade)
           r == Val(bs.taxa_juros)
           sigma == Val(bs.volatilidade)
       IN  aval' = Some([Val(aval) EXCEPT !.saida = Some(
               [delta |-> calcular_delta(tipo, S, K, T, r, sigma),
                theta |-> calcular_theta(tipo, S, K, T, r, sigma),
                rho |-> calcular_rho(tipo, S, K, T, r, sigma),
                todas |-> calcular_todas_gregas(tipo, S, K, T, r, sigma)])])
    /\ UNCHANGED <<varsBS, varsPinn, app>>

\* the caller asks for the surface of one cell with the same tipo_opcao
superficie_do_tipo ==
    /\ aval # None
    /\ Val(aval).op = "seletores"
    /\ Val(aval).superficie = <<>>
    /\ IniciarSuperficie(ThreadSuperficie, 1, 1, Val(aval).entrada.tipo)

\* the caller keeps the returned surface
receber_superficie ==
    /\ aval # None
    /\ Val(aval).op = "seletores"
    /\ th[ThreadSuperficie].pc = "fim"
    /\ aval' = Some([Val(aval) EXCEPT
                        !.superficie = th[ThreadSuperficie].superficie])
    /\ th' = [th EXCEPT ![ThreadSuperficie] = Ocioso]
    /\ UNCHANGED <<bs, chamada, varsPinn, app>>

InitTipos ==
    /\ \E p \in ParametrosValidos :
          /\ bs = Atribuir(p.S, p.K, p.T, p.r, p.sigma)
          /\ chamada = Some(p)
    /\ \E tipo \in TiposEntrada :
          aval = Some([op |-> "seletores", entrada |-> [tipo |-> tipo],
                       saida |-> None, superficie |-> <<>>])
    /\ th = [t \in Threads |-> Ocioso]
    /\ pinn = PinnNova
    /\ treino = SemTreino
    /\ rng = 0
    /\ prev = <<>>
    /\ app = None

NextTipos ==
    \/ avaliar_seletores
    \/ superficie_do_tipo
    \/ PassoOperacao(ThreadSuperficie)
    \/ receber_superficie

SpecTipos == InitTipos /\ [][NextTipos]_vars

-----------------------------------------------------------------------------
(* CalculadoraPINNApp: the handlers of the main thread and the worker      *)
(* thread; bs is self.modelo_bs, pinn and treino are self.pinn             *)

\* epocas=1000 of the host's treinar call, shortened
EpocasHost == 2

\* the text of the five entries: the defaults, another option, and text that
\* float() rejects
EntradasPadrao ==
    [numerico |-> TRUE, S |-> 100 * Escala, K |-> 100 * Escala, T |-> Escala,
     r |-> Arred(5 * Escala, 100), sigma |-> Arred(2 * Escala, 10)]

EntradasHost ==
    { EntradasPadrao,
      [numerico |-> TRUE, S |-> 110 * Escala, K |-> 90 * Escala,
       T |-> 2 * Escala, r |-> Arred(3 * Escala, 100),
       sigma |-> Arred(4 * Escala, 10)],
      [numerico |-> FALSE, S |-> 0, K |-> 0, T |-> 0, r |-> 0, sigma |-> 0] }

\* np.linspace(50, 150, 100): its first, a middle and its last spot
S_range == <<50 * Escala, 100 * Escala, 150 * Escala>>

\* the visualization types followed
TiposVis == {"Comparacao 2D", "Gregas"}

\* CalculadoraPINNApp.__init__
AppNova ==
    [treinamento_em_andamento |-> FALSE, pinn_treinada |-> FALSE,
     tem_pinn |-> FALSE, btn_treinar |-> "normal",
     entradas |-> EntradasPadrao, params |-> None, vivos |-> 0,
     fila |-> <<>>, vis |-> None]

\* the user edits the entries of the calculator tab
digitar(e) ==
    /\ e # app.entradas
    /\ app' = [app EXCEPT !.entradas = e]
    /\ UNCHANGED <<varsBS, varsPinn, aval>>

\* _calcular_black_scholes: float() of the five entries, then
\* configurar_parametros; text that is no number is caught and changes nothing
calcular_black_scholes ==
    /\ app.entradas.numerico
    /\ configurar_parametros(app.entradas.S, app.entradas.K, app.entradas.T,
                             app.entradas.r, app.entradas.sigma)

\* a start handler with no test of the flag
pode_iniciar_sempre(a) == TRUE

\* if self.treinamento_em_andamento: return
pode_iniciar(a) == ~a.treinamento_em_andamento

\* _iniciar_treinamento_thread past its two early returns: the flag, the
\* button, a new RedeNeuralPINN in self.pinn, and the worker thread started;
\* MaxTreinos trainings are followed
iniciar_treinamento_thread ==
    /\ pode_iniciar(app)
    /\ app.entradas.numerico
    /\ rng < MaxTreinos
    /\ app' = [app EXCEPT !.treinamento_em_andamento = TRUE,
                          !.btn_treinar = "disabled",
                          !.tem_pinn = TRUE,
                          !.params = Some([K |-> app.entradas.K,
                                           T |-> app.entradas.T,
                                           r |-> app.entradas.r,
                                           sigma |-> app.entradas.sigma]),
                          !.vivos = @ + 1]
    /\ pinn' = PinnNova
    /\ treino' = SemTreino
    /\ prev' = <<>>
    /\ UNCHANGED <<varsBS, rng, aval>>

\* _executar_treino: the worker calls self.pinn.treinar(epocas=1000,
\* callback_progresso=callback, **params)
executar_treino ==
    /\ app.vivos > 0
    /\ treino.chamadas = 0
    /\ LET p == Val(app.params)
       IN  treinar(p.K, p.T, p.r, p.sigma, EpocasHost, TRUE)

\* an exception out of a training step: it leaves treinar and
\* _executar_treino, which has no handler, and ends the worker thread
treinar_levanta ==
    /\ app.vivos > 0
    /\ treino.pc = "laco"
    /\ treino' = [treino EXCEPT !.pc = "excecao"]
    /\ app' = [app EXCEPT !.vivos = @ - 1]
    /\ UNCHANGED <<varsBS, pinn, rng, prev, aval>>

\* _executar_treino after treinar has returned:
\* self.after(0, lambda: self._finalizar_treino(historico)); the thread ends
agendar_finalizar ==
    /\ app.vivos > 0
    /\ treino.pc = "ocioso"
    /\ treino.chamadas > 0
    /\ app' = [app EXCEPT !.fila = Append(@, "_finalizar_treino"),
                          !.vivos = @ - 1]
    /\ UNCHANGED <<varsBS, varsPinn, aval>>

\* the main loop runs the scheduled _finalizar_treino
finalizar_treino ==
    /\ app.fila # <<>>
    /\ Head(app.fila) = "_finalizar_treino"
    /\ app' = [app EXCEPT !.fila = Tail(@),
                          !.treinamento_em_andamento = FALSE,
                          !.pinn_treinada = TRUE,
                          !.btn_treinar = "normal"]
    /\ UNCHANGED <<varsBS, varsPinn, aval>>

\* the treinar call of the instance in self.pinn has returned
InstanciaTreinada ==
    /\ app.tem_pinn
    /\ treino.pc = "ocioso"
    /\ treino.chamadas > 0

\* calcular_superficie_precos([s], [self.pinn.T]) raises TypeError in its
\* first cell, after writing the two fields, when K, r or sigma of modelo_bs
\* or the T of the instance is None
SuperficieLevanta ==
    \/ bs.preco_strike = None \/ bs.taxa_juros = None
    \/ bs.volatilidade = None \/ pinn.T = None

\* modelo_bs after _atualizar_visualizacao(tipo_vis) past the pinn_treinada
\* check: the surfaces of the analytic curve restore the fields they write,
\* a raising one does not, and the 'Gregas' loop writes preco_ativo = s
bs_apos_visualizacao(tipo_vis) ==
    IF SuperficieLevanta
    THEN [bs EXCEPT !.preco_ativo = Some(S_range[1]),
                    !.tempo_maturidade = pinn.T]
    ELSE IF tipo_vis # "Gregas" THEN bs
    ELSE IF bs.tempo_maturidade = None
    THEN [bs EXCEPT !.preco_ativo = Some(S_range[1])]
    ELSE [bs EXCEPT !.preco_ativo = Some(S_range[Len(S_range)])]

\* whether _atualizar_visualizacao ends in a TypeError
visualizacao_levanta(tipo_vis) ==
    \/ SuperficieLevanta
    \/ (tipo_vis = "Gregas" /\ bs.tempo_maturidade = None)

\* precos_analiticos: the call price of each spot for the K, r, sigma of
\* modelo_bs and the T of the instance
precos_analiticos ==
    IF SuperficieLevanta THEN <<>>
    ELSE [i \in 1..Len(S_range) |->
             calcular_preco_call(S_range[i], Val(bs.preco_strike), Val(pinn.T),
                                 Val(bs.taxa_juros), Val(bs.volatilidade))]

\* _atualizar_visualizacao(tipo_vis) when pinn_treinada is True; when it is
\* False the handler shows a label and returns
atualizar_visualizacao(tipo_vis) ==
    /\ app.pinn_treinada
    /\ bs' = bs_apos_visualizacao(tipo_vis)
    /\ app' = [app EXCEPT !.vis =
                   Some([vez |-> IF app.vis = None THEN TRUE
                                 ELSE ~Val(app.vis).vez,
                         tipo |-> tipo_vis,
                         erro |-> visualizacao_levanta(tipo_vis),
                         precos_analiticos |-> precos_analiticos])]
    /\ UNCHANGED <<chamada, th, varsPinn, aval>>

InitHost ==
    /\ bs = CamposNone
    /\ chamada = None
    /\ th = [t \in Threads |-> Ocioso]
    /\ pinn = PinnNova
    /\ treino = SemTreino
    /\ rng = 0
    /\ prev = <<>>
    /\ aval = None
    /\ app = AppNova

\* the steps of the worker thread inside treinar
PassoTreinar ==
    \/ gerar_dados_treinamento
    \/ passo_treinamento
    \/ registrar_loss
    \/ registrar_loss_pde
    \/ registrar_loss_ic
    \/ registrar_loss_bc
    \/ chamar_callback
    \/ retornar_treino

NextHost ==
    \/ \E e \in EntradasHost : digitar(e)
    \/ calcular_black_scholes
    \/ iniciar_treinamento_thread
    \/ executar_treino
    \/ PassoTreinar
    \/ treinar_levanta
    \/ agendar_finalizar
    \/ finalizar_treino
    \/ \E tipo_vis \in TiposVis : atualizar_visualizacao(tipo_vis)

SpecHost == InitHost /\ [][NextHost]_vars

\* the worker thread keeps running and the main loop keeps serving its queue
SpecHostJusto ==
    /\ SpecHost
    /\ WF_vars(executar_treino)
    /\ WF_vars(PassoTreinar)
    /\ WF_vars(agendar_finalizar)
    /\ WF_vars(finalizar_treino)

-----------------------------------------------------------------------------
(* Properties                                                              *)

\* the parameters of the last successful or raising configurar_parametros
Configurado == Val(chamada)

\* the scalar price of an instance configured with (S, K, T, r, sigma)
PrecoEscalar(call, S, K, T, r, sigma) ==
    IF call THEN calcular_preco_call(S, K, T, r, sigma)
    ELSE calcular_preco_put(S, K, T, r, sigma)

\* C1: configurar_parametros raises ValueError if and only if one of S, K, T,
\* sigma is <= 0; the value of r never causes a rejection.
C1_RejeitaSeESomenteSe ==
    chamada # None =>
        ((Configurado.erro # "ok") <=>
            (Configurado.S <= 0 \/ Configurado.K <= 0
                \/ Configurado.T <= 0 \/ Configurado.sigma <= 0))

\* C1 witness: a call with negative r and positive S, K, T, sigma was accepted
C1_Witness ==
    /\ chamada # None
    /\ Configurado.erro = "ok"
    /\ Configurado.r < 0
    /\ bs.taxa_juros = Some(Configurado.r)

\* C2: whenever the instance stores parameters, the stored S, K, T and sigma
\* are strictly positive (a raising call leaves the validated ones in place).
C2_ParametrosSempreValidados ==
    bs.preco_ativo # None =>
        /\ Val(bs.preco_ativo) > 0
        /\ Val(bs.preco_strike) > 0
        /\ Val(bs.tempo_maturidade) > 0
        /\ Val(bs.volatilidade) > 0

\* C3: a scalar price computed while calcular_superficie_precos runs on the
\* same instance in another thread is the price of the configured parameters.
C3_EscalarLeConfigurado ==
    \A t \in Threads :
        (th[t].pc = "fim" /\ th[t].op \in OpsEscalares) =>
            th[t].resultado =
                Some(PrecoEscalar(th[t].op = "calcular_preco_call",
                                  Configurado.S, Configurado.K, Configurado.T,
                                  Configurado.r, Configurado.sigma))

\* C4: the surface has len(tempos) rows and len(precos_ativos) columns and
\* its entry [i][j] is the scalar price for spot precos_ativos[j], maturity
\* tempos[i] and the configured K, r, sigma.
C4_SuperficieIgualEscalar ==
    \A t \in Threads :
        (th[t].pc = "fim" /\ th[t].op = "calcular_superficie_precos") =>
            /\ Len(th[t].superficie) = th[t].nT
            /\ \A i \in 1..th[t].nT :
                /\ Len(th[t].superficie[i]) = th[t].nS
                /\ \A j \in 1..th[t].nS :
                    th[t].superficie[i][j] =
                        PrecoEscalar(Lower(th[t].tipo) = "call",
                                     precos_ativos(th[t].nS)[j], Configurado.K,
                                     tempos(th[t].nT)[i], Configurado.r,
                                     Configurado.sigma)

\* C4 witness: a 2 x 2 call surface has been returned, one of whose cells is
\* the configured (S, T)
C4_Witness ==
    \E t \in Threads :
        /\ th[t].pc = "fim"
        /\ th[t].op = "calcular_superficie_precos"
        /\ th[t].nS = 2 /\ th[t].nT = 2
        /\ Lower(th[t].tipo) = "call"
        /\ \E i \in 1..2, j \in 1..2 :
            /\ precos_ativos(2)[j] = Configurado.S
            /\ tempos(2)[i] = Configurado.T
            /\ th[t].superficie[i][j] > 0

\* C6: once treinar has set K, T, r, sigma on an instance, no later operation
\* on it changes them.
C6_ParametrosFixosNaInstancia ==
    [][pinn.K # None =>
          /\ pinn'.K = pinn.K /\ pinn'.T = pinn.T
          /\ pinn'.r = pinn.r /\ pinn'.sigma = pinn.sigma]_vars

\* C7: treinar(epocas=E) performs exactly E optimizer steps and then returns,
\* whatever the losses are, NaN and Inf included.
C7_ExatamenteEpocasPassos ==
    /\ treino.pc = "fim" => treino.passos = treino.epocas
    /\ treino.pc \notin {"ocioso", "fim"} => treino.passos <= treino.epocas

\* C7 witness: a run of 21 epochs ended after 21 steps although a logged
\* loss was not finite
C7_Witness ==
    /\ treino.pc = "fim"
    /\ treino.epocas = 21
    /\ treino.passos = 21
    /\ \E k \in 1..Len(pinn.historico_loss) : ~pinn.historico_loss[k].finito

\* C8: within one treinar call the dataset is sampled exactly once, before
\* the first gradient step, and every step receives that same dataset.
C8_DadosAmostradosUmaVez ==
    /\ treino.pc = "gerar" => (treino.amostragens = 0 /\ treino.passos = 0)
    /\ treino.pc \notin {"ocioso", "gerar"} =>
        /\ treino.amostragens = 1
        /\ treino.usados \subseteq {Val(treino.dados).id}

\* C8 witness: 21 steps were taken, all on the one dataset sampled
C8_Witness ==
    /\ treino.pc = "fim"
    /\ treino.passos = 21
    /\ treino.amostragens = 1
    /\ treino.usados = {Val(treino.dados).id}

\* the number of multiples of 10 in 0..(n - 1): ceil(n / 10)
Teto10(n) == (n + 9) \div 10

\* C9: history is appended exactly at the epochs divisible by 10, one value
\* to each of the four lists: at every epoch boundary the lists have equal
\* length, grown by ceil(e/10) after e epochs, so by ceil(E/10) at the end.
C9_RegistroACadaDezEpocas ==
    /\ treino.pc \in {"reg_loss", "reg_pde", "reg_ic", "reg_bc", "callback"}
          => treino.epoca % 10 = 0
    /\ treino.pc \in {"laco", "fim"} =>
        /\ Len(pinn.historico_loss) = treino.hist0 + Teto10(treino.epoca)
        /\ Len(pinn.historico_loss_pde) = Len(pinn.historico_loss)
        /\ Len(pinn.historico_loss_ic) = Len(pinn.historico_loss)
        /\ Len(pinn.historico_loss_bc) = Len(pinn.historico_loss)
    /\ treino.pc = "fim" => treino.epoca = treino.epocas

\* C9 witness: a run of 21 epochs ended with 3 new entries in each list
C9_Witness ==
    /\ treino.pc = "fim"
    /\ treino.epocas = 21
    /\ Len(pinn.historico_loss) = treino.hist0 + 3
    /\ Len(pinn.historico_loss_bc) = treino.hist0 + 3

\* C10: a supplied callback is invoked once per logged epoch, after that
\* epoch's history append and before the next gradient step, with fractions
\* in [0,1] that are strictly increasing within the run.
C10_CallbackPorEpocaRegistrada ==
    /\ ~treino.callback => treino.cb = <<>>
    /\ (treino.callback /\ treino.pc \in {"laco", "fim"}) =>
          Len(treino.cb) = Len(pinn.historico_loss) - treino.hist0
    /\ \A k \in 1..Len(treino.cb) :
        /\ treino.cb[k].epoca = 10 * (k - 1)
        /\ treino.cb[k].hist = treino.hist0 + k
        /\ treino.cb[k].passos = treino.cb[k].epoca + 1
        /\ treino.cb[k].progresso[2] > 0
        /\ treino.cb[k].progresso[1] >= 0
        /\ treino.cb[k].progresso[1] <= treino.cb[k].progresso[2]
        /\ k > 1 =>
              treino.cb[k - 1].progresso[1] * treino.cb[k].progresso[2]
                  < treino.cb[k].progresso[1] * treino.cb[k - 1].progresso[2]

\* C10 witness: a run of 21 epochs with a callback ended after 3 invocations
C10_Witness ==
    /\ treino.pc = "fim"
    /\ treino.callback
    /\ treino.epocas = 21
    /\ Len(treino.cb) = 3

\* the four history lists of a RedeNeuralPINN instance
Historicos ==
    {"historico_loss", "historico_loss_pde", "historico_loss_ic",
     "historico_loss_bc"}

\* C11: across treinar and prever calls no history list gets shorter and the
\* entries it already holds stay as they are; a second treinar call appends
\* after the entries of the first.
C11_HistoricoCresce ==
    [][\A h \in Historicos :
          /\ Len(pinn'[h]) >= Len(pinn[h])
          /\ SubSeq(pinn'[h], 1, Len(pinn[h])) = pinn[h]]_vars

\* a second treinar call has appended after the entries of the first one
C11_Witness ==
    /\ treino.chamadas = 2
    /\ treino.hist0 > 0
    /\ \A h \in Historicos : Len(pinn[h]) > treino.hist0

\* C12: a prever call leaves the weights, the optimizer state, the history
\* lists and K, T, r, sigma as they were, and the prever calls made on the
\* instance with the same arguments return the same values.
C12_PreverSomenteLe ==
    [][Len(prev') > Len(prev) =>
          /\ pinn' = pinn
          /\ \A i, j \in 1..Len(prev') :
                (prev'[i].S = prev'[j].S /\ prev'[i].t = prev'[j].t)
                    => prev'[i].resultado = prev'[j].resultado]_vars

\* two prever calls with the same arguments on a trained instance
C12_Witness ==
    /\ Len(pinn.historico_loss) > 0
    /\ Len(prev) = 2
    /\ prev[1].S = prev[2].S
    /\ prev[1].t = prev[2].t
    /\ ~prev[1].resultado.erro

TreinoInvalido ==
    /\ treino.pc # "ocioso"
    /\ (Val(pinn.K) <= 0 \/ Val(pinn.T) <= 0 \/ Val(pinn.sigma) <= 0)

\* C18: a treinar call with K <= 0, T <= 0 or sigma <= 0 is rejected before
\* any data is sampled and before any training step runs.
C18_TreinarRejeitaInvalidos ==
    TreinoInvalido => (treino.amostragens = 0 /\ treino.passos = 0)

\* the result of the calcular_perda call, once it has returned
PerdaCalculada ==
    /\ aval # None
    /\ Val(aval).op = "calcular_perda"
    /\ Val(aval).saida # None

\* a float that is >= 0: NaN compares false with every number
FGe0(x) == ~x.nan /\ x.v >= 0

\* C14: the total loss is loss_pde + lambda_ic * loss_ic + lambda_bc * loss_bc
\* with loss_bc the sum of the two boundary errors, lambda_ic and lambda_bc
\* being the weights configured on the instance (10.0 unless set otherwise).
C14_PerdaTotalPonderada ==
    PerdaCalculada =>
        LET e == Val(aval).entrada
            p == Val(Val(aval).saida)
        IN  /\ p.loss_bc = FSoma(p.loss_bc_inf, p.loss_bc_sup)
            /\ p.loss_total =
                   FSoma(FSoma(p.loss_pde, FMul(Num(e.lambda), p.loss_ic)),
                         FMul(Num(e.lambda), p.loss_bc))

\* C15: for every batch and every weight assignment, loss_pde, loss_ic and
\* loss_bc computed by calcular_perda are >= 0.
C15_PerdasNaoNegativas ==
    PerdaCalculada =>
        LET p == Val(Val(aval).saida)
        IN  FGe0(p.loss_pde) /\ FGe0(p.loss_ic) /\ FGe0(p.loss_bc)

\* the dataset of the gerar_dados_treinamento call, once it has returned
DadosGerados ==
    /\ aval # None
    /\ Val(aval).op = "gerar_dados_treinamento"
    /\ Val(aval).saida # None

\* C16: the dataset has N_colocacao collocation points and N_borda points
\* in each other set; terminal points have t = T and target max(S - K, 0),
\* lower-boundary points S = 0 and target 0, upper-boundary points
\* S = S_max = 4*K and target S_max - K*exp(-r*(T - t)).
C16_DadosConformeContrato ==
    DadosGerados =>
        LET e == Val(aval).entrada
            d == Val(Val(aval).saida)
            borda == 1..e.N_borda
        IN  /\ Len(d.S_col) = e.N_colocacao /\ Len(d.t_col) = e.N_colocacao
            /\ \A c \in {"S_ic", "t_ic", "V_ic", "S_bc_inf", "t_bc_inf",
                          "V_bc_inf", "S_bc_sup", "t_bc_sup", "V_bc_sup"} :
                  Len(d[c]) = e.N_borda
            /\ \A i \in borda :
                  /\ d.t_ic[i] = e.T
                  /\ d.V_ic[i] = (IF d.S_ic[i] > e.K THEN d.S_ic[i] - e.K ELSE 0)
                  /\ d.S_bc_inf[i] = 0 /\ d.V_bc_inf[i] = 0
                  /\ d.S_bc_sup[i] = 4 * e.K
                  /\ d.V_bc_sup[i] =
                        4 * e.K - Mul(e.K, Exp(-Mul(e.r, e.T - d.t_bc_sup[i])))

\* a dataset with a terminal point in the money and one out of the money
C16_Witness ==
    /\ DadosGerados
    /\ LET d == Val(Val(aval).saida)
       IN  /\ Len(d.S_ic) = 2
           /\ d.V_ic[1] > 0
           /\ d.V_ic[2] = 0
           /\ d.V_bc_sup[1] > 0

\* the (S, t) points of the four sets of a dataset
Pontos(d, cS, ct) == {<<d[cS][i], d[ct][i]>> : i \in 1..Len(d[cS])}

\* C17: every collocation point lies in [eps, S_max] x [0, T] with eps > 0,
\* no collocation point is a terminal or a boundary point, and no terminal
\* point is a boundary point.
C17_ConjuntosDisjuntos ==
    DadosGerados =>
        LET e == Val(aval).entrada
            d == Val(Val(aval).saida)
            col == Pontos(d, "S_col", "t_col")
            ic == Pontos(d, "S_ic", "t_ic")
            bc == Pontos(d, "S_bc_inf", "t_bc_inf")
                      \cup Pontos(d, "S_bc_sup", "t_bc_sup")
        IN  /\ \A p \in col : /\ p[1] > 0 /\ p[1] <= 4 * e.K
                               /\ p[2] >= 0 /\ p[2] <= e.T
            /\ col \cap ic = {}
            /\ col \cap bc = {}
            /\ ic \cap bc = {}

\* the output of the forward pass, once it has been computed
RedeAvaliada ==
    /\ aval # None
    /\ Val(aval).op = "modelo"
    /\ Val(aval).saida # None

\* C19: the value the network gives is >= 0 for any weights and any input
\* (S, t).
C19_SaidaNaoNegativa ==
    RedeAvaliada => FGe0(Val(Val(aval).saida))

\* the greeks of the call and of the put, once both have been computed
GregasCalculadas ==
    /\ aval # None
    /\ Val(aval).op = "calcular_todas_gregas"
    /\ Val(aval).saida # None

\* C20: calcular_todas_gregas returns exactly the keys delta, gamma, vega,
\* theta, rho; on the same parameters delta_call - delta_put = 1 and gamma
\* and vega are the same for call and put; vega and rho are the raw values
\* divided by 100 and theta the raw value divided by 365 (to the rounding of
\* the division).
C20_GregasCoerentes ==
    GregasCalculadas =>
        LET e == Val(aval).entrada
            p == e.p
            g == Val(Val(aval).saida)
        IN  /\ DOMAIN g.call = {"delta", "gamma", "vega", "theta", "rho"}
            /\ DOMAIN g.put = {"delta", "gamma", "vega", "theta", "rho"}
            /\ g.call.delta - g.put.delta = Escala
            /\ g.call.gamma = g.put.gamma
            /\ g.call.vega = g.put.vega
            /\ 2 * Abs(100 * g.call.vega
                          - vega_bruta(p.S, p.K, p.T, p.r, p.sigma)) <= 100
            /\ \A k \in {"call", "put"} :
                  /\ 2 * Abs(100 * g[k].rho
                        - rho_bruto(k, p.S, p.K, p.T, p.r, p.sigma)) <= 100
                  /\ 2 * Abs(365 * g[k].theta
                        - theta_bruto(k, p.S, p.K, p.T, p.r, p.sigma)) <= 365

\* the greeks of an option at the money: a vega that the division by 100
\* made smaller, and a rho of each sign
C20_Witness ==
    /\ GregasCalculadas
    /\ LET e == Val(aval).entrada
           g == Val(Val(aval).saida)
       IN  /\ e.p.S = e.p.K
           /\ e.tipo_call = "CALL"
           /\ g.call.vega > 0
           /\ g.call.vega < vega_bruta(e.p.S, e.p.K, e.p.T, e.p.r, e.p.sigma)
           /\ g.call.rho > 0
           /\ g.put.rho < 0
           /\ g.call.theta # g.put.theta

\* C21: a calcular_superficie_precos call with no other writer of the
\* instance never writes preco_strike, taxa_juros or volatilidade, and when
\* it has returned preco_ativo and tempo_maturidade hold their values of
\* before the call, for empty grids too.
C21_SuperficieRestaura ==
    [][/\ bs'.preco_strike = bs.preco_strike
       /\ bs'.taxa_juros = bs.taxa_juros
       /\ bs'.volatilidade = bs.volatilidade
       /\ th'[ThreadSuperficie].pc = "fim" =>
             /\ bs'.preco_ativo = Some(Configurado.S)
             /\ bs'.tempo_maturidade = Some(Configurado.T)]_vars

\* a surface over grids that hold neither the configured spot nor the
\* configured maturity has returned and the two fields are the configured ones
C21_Witness ==
    /\ th[ThreadSuperficie].pc = "fim"
    /\ th[ThreadSuperficie].nS = 1
    /\ th[ThreadSuperficie].nT = 1
    /\ precos_ativos(1)[1] # Configurado.S
    /\ tempos(1)[1] # Configurado.T
    /\ th[ThreadSuperficie].superficie[1][1] > 0
    /\ bs.preco_ativo = Some(Configurado.S)
    /\ bs.tempo_maturidade = Some(Configurado.T)

\* the normalized coordinate of a number the model is fed
Normalizado(x) == normalizar(Num(x)).v

\* C22: both normalized coordinates of every point (S, t) of the training
\* domain that is fed to the model lie in [-1, 1].
C22_NormalizadoEmFaixa ==
    DadosGerados =>
        LET d == Val(Val(aval).saida)
            pontos == Pontos(d, "S_col", "t_col") \cup Pontos(d, "S_ic", "t_ic")
                      \cup Pontos(d, "S_bc_inf", "t_bc_inf")
                      \cup Pontos(d, "S_bc_sup", "t_bc_sup")
        IN  \A p \in pontos :
              /\ Normalizado(p[1]) >= -Escala /\ Normalizado(p[1]) <= Escala
              /\ Normalizado(p[2]) >= -Escala /\ Normalizado(p[2]) <= Escala

\* C23: whatever the interleaving of two calcular_superficie_precos calls on
\* one instance, once both have returned preco_ativo and tempo_maturidade are
\* the values configured before either call started.
C23_SuperficiesConcorrentesRestauram ==
    (\A t \in Threads : th[t].pc \in {"ocioso", "fim"}) =>
        /\ bs.preco_ativo = Some(Configurado.S)
        /\ bs.tempo_maturidade = Some(Configurado.T)

\* C24: the losses passo_treinamento returns, logs and shows in the callback
\* message are those of the weights before that epoch's optimizer step; the
\* first history entry of a fresh instance is the loss of the initial weights
\* and the loss of the weights after the last step is never logged.
C24_PerdaAntesDoPasso ==
    /\ treino.perdas # None =>
          \A c \in DOMAIN Val(treino.perdas) :
              Val(treino.perdas)[c].theta = pinn.theta - 1
    /\ \A h \in Historicos :
          /\ \A i \in 1..Len(pinn[h]) : pinn[h][i].theta < pinn.theta
          /\ Len(pinn[h]) > 0 => pinn[h][1].theta = 0
    /\ \A k \in 1..Len(treino.cb) :
          treino.cb[k].loss.theta =
              (pinn.theta - treino.passos) + treino.cb[k].epoca

\* a first treinar call of eleven epochs has returned: two entries logged
\* with their callbacks, the last one older than the final weights
C24_Witness ==
    /\ treino.pc = "fim"
    /\ treino.chamadas = 1
    /\ pinn.theta = CadenciaRegistro + 1
    /\ Len(pinn.historico_loss) = 2
    /\ Len(treino.cb) = 2
    /\ pinn.historico_loss[2].theta = CadenciaRegistro

\* C25: at most one worker thread is inside _executar_treino at any time,
\* it exists only while treinamento_em_andamento is True, and a treinar call
\* runs only in that thread.
\* While the flag is True no step creates a thread, and the flag
\* is set before the thread starts and cleared only by _finalizar_treino.
C25_UmTreinoPorVez ==
    /\ [](/\ app.vivos <= 1
          /\ app.vivos = 1 => app.treinamento_em_andamento
          /\ treino.pc \notin {"ocioso", "excecao"} => app.vivos = 1)
    /\ [][/\ app.treinamento_em_andamento => app'.vivos <= app.vivos
          /\ app'.vivos > app.vivos => app'.treinamento_em_andamento
          /\ (app.treinamento_em_andamento /\ ~app'.treinamento_em_andamento)
                => /\ app.fila # <<>>
                   /\ Head(app.fila) = "_finalizar_treino"
                   /\ app'.fila = Tail(app.fila)]_vars

\* a second training is in its loop, the first one having been finalized
C25_Witness ==
    /\ app.pinn_treinada
    /\ app.treinamento_em_andamento
    /\ app.vivos = 1
    /\ rng = 2
    /\ treino.pc = "laco"

\* C26: whenever treinamento_em_andamento becomes True it eventually becomes
\* False again with the start button enabled, also when treinar raises.
C26_TreinoSempreTermina ==
    app.treinamento_em_andamento ~>
        (~app.treinamento_em_andamento /\ app.btn_treinar = "normal")

\* a step of _atualizar_visualizacao past its pinn_treinada check
Visualizou == app'.vis # app.vis

\* C27: whenever _atualizar_visualizacao passes its pinn_treinada check,
\* self.pinn is an instance whose treinar call has returned.
C27_PreverSoEmTreinada ==
    [][Visualizou => InstanciaTreinada]_vars

\* C28: a visualization that returns leaves the five fields of modelo_bs as
\* they were before it, whatever its type.
C28_VisualizacaoNaoAlteraBS ==
    [][(Visualizou /\ ~Val(app'.vis).erro) => bs' = bs]_vars

\* C29: whenever _atualizar_visualizacao computes the analytic curve,
\* modelo_bs is configured and its K, r and sigma are those passed to the
\* treinar call of the current self.pinn.
C29_MesmaOpcao ==
    [][Visualizou =>
          /\ bs.preco_strike # None
          /\ bs.preco_strike = pinn.K
          /\ bs.taxa_juros = pinn.r
          /\ bs.volatilidade = pinn.sigma]_vars

\* C30: for calcular_delta, calcular_theta, calcular_rho,
\* calcular_todas_gregas and calcular_superficie_precos, a tipo_opcao equal to
\* 'call' ignoring case gives the value of the call formula and every other
\* string gives the value of the put formula; none of them fails.
C30_SelecaoDoTipo ==
    LET tipo == Val(aval).entrada.tipo
        ehCall == tipo \in TiposIgualCall
        ref == IF ehCall THEN "call" ELSE "put"
        c == Configurado
        sup == Val(aval).superficie
    IN  /\ Val(aval).saida # None =>
            LET s == Val(Val(aval).saida)
            IN  /\ s.delta = calcular_delta(ref, c.S, c.K, c.T, c.r, c.sigma)
                /\ s.theta = calcular_theta(ref, c.S, c.K, c.T, c.r, c.sigma)
                /\ s.rho = calcular_rho(ref, c.S, c.K, c.T, c.r, c.sigma)
                /\ s.todas = calcular_todas_gregas(ref, c.S, c.K, c.T, c.r,
                                                   c.sigma)
                /\ s.delta = IF ehCall
                             THEN NormCdf(calcular_d1_d2(c.S, c.K, c.T, c.r,
                                                         c.sigma)[1])
                             ELSE NormCdf(calcular_d1_d2(c.S, c.K, c.T, c.r,
                                                         c.sigma)[1]) - Escala
        /\ th[ThreadSuperficie].pc = "fim" =>
            Len(th[ThreadSuperficie].superficie) = 1
        /\ sup # <<>> =>
            /\ Len(sup) = 1
            /\ Len(sup[1]) = 1
            /\ sup[1][1] = PrecoEscalar(ehCall, PrecoGrade(1), c.K,
                                        TempoGrade(1), c.r, c.sigma)

\* C30 witness: a mixed-case spelling of 'call' has gone through the four
\* greeks operations and a returned surface
C30_Witness ==
    /\ Val(aval).op = "seletores"
    /\ Val(aval).entrada.tipo = "cAlL"
    /\ Val(aval).saida # None
    /\ Len(Val(aval).superficie) = 1

\* a misspelling has gone through the same operations
C30_WitnessOutro ==
    /\ Val(aval).op = "seletores"
    /\ Val(aval).entrada.tipo = "calls"
    /\ Val(aval).saida # None
    /\ Len(Val(aval).superficie) = 1
    /\ Val(Val(aval).saida).delta < 0

=============================================================================
